---- MODULE Spec2Model ----
(***************************************************************************)
(* A model of the ETL pipeline of the repository:                          *)
(*   flows/mongo_db.py          gold CSV -> MongoDB documents -> sync      *)
(*   flows/gold_aggregation.py  silver -> gold artifacts                   *)
(*   flows/silver_ingestion.py  source -> silver cleaning                  *)
(*   api/app.py                 the routes that republish the collections  *)
(* Each part of the pipeline has its own specification (SpecSync,          *)
(* SpecTransform, SpecGold, SpecMonthly, SpecClean, SpecApi, SpecTotals);  *)
(* the variables of the other parts stay at their idle values.             *)
(***************************************************************************)
EXTENDS Integers, Sequences, FiniteSets, TLC

VARIABLES
    \* ---- insert_data_to_mongodb (flows/mongo_db.py) ----
    gold,        \* the rows normalize() yields for the gold file, in row order
    unique_key,  \* value['unique_key']: "_id" or "None"
    has_b,       \* whether the gold file of the current run has the column b
    docs,        \* value['docs'] of the running call (the dicts are mutated)
    coll,        \* the MongoDB collection: a set of stored documents
    pc,          \* where the task is
    i,           \* position in the batch (bulk_write op / fallback loop)
    now,         \* datetime.utcnow(), as a tick count
    next_oid,    \* ObjectId generator of the driver
    retried,     \* the task's one retry (retries=1) is used up
    runs,        \* flow runs started
    before,      \* history: the collection when the running call began
    last,        \* history: the previous flow run, when it completed
    attempted,   \* history: batch positions tried with insert_one
    skipped,     \* history: batch positions whose insert_one failed
    many_raised, \* history: insert_many raised in the running call
    \* ---- transform_to_mongo_docs and its flow (flows/mongo_db.py) ----
    gold_files,  \* the file names the flow is called with
    name_idx,    \* position of the loop over gold_files
    df,          \* the column names of the file read last, as read
    result,      \* result: file name -> [collection, unique_key]
    flow,        \* "transform", "insert", "Completed" or "Failed"
    unread,      \* history: the files whose read raised
    synced,      \* history: file name -> the path the sync took for it
    \* ---- gold_aggregations, the write of its outputs (flows/gold_aggregation.py) ----
    gold_bucket,   \* the gold bucket: object name -> the run that wrote it (0: none)
    gold_run,      \* the flow run of gold_aggregation_flow (0: none yet)
    gold_pc,       \* where the task is
    written,       \* written: the names put by the running attempt, in order
    gold_retried,  \* the task's one retry (retries=1) is used up
    \* ---- gold_aggregations, the monthly aggregate (flows/gold_aggregation.py) ----
    fact_purchases,  \* the rows of fact_purchases: [month, montant]
    agg_monthly,     \* the rows of agg_monthly.csv as written
    agg_pc,          \* "input" or "written"
    \* ---- the silver cleaners (flows/silver_ingestion.py) ----
    object_name,  \* "clients.csv" or "achats.csv"
    raw,          \* the DataFrame read from the sources bucket: a set of rows,
                  \* each with its index label idx (its position in the file)
    once,         \* the cleaner's output for raw
    twice,        \* the cleaner's output for once
    clean_pc,     \* how many times the cleaner has run
    \* ---- the HTTP API (api/app.py) ----
    stored,       \* the documents of the collection a route reads, in store order
    response,     \* the JSON body of the last response: [route, data, latest_written_at]
    \* ---- gold_aggregations, the totals of its outputs (flows/gold_aggregation.py) ----
    df_clients,   \* the silver clients table as read: rows [id_client, pays]
    df_achats,    \* the silver achats table as read: rows [id_achat, id_client, date, montant]
    outputs       \* the tables computed from them (NoOutputs before the run)

syncVars == <<gold, unique_key, has_b, docs, coll, pc, i, now, next_oid,
              retried, runs, before, last, attempted, skipped, many_raised>>

xformVars == <<gold_files, name_idx, df, result, flow, unread, synced>>

goldVars == <<gold_bucket, gold_run, gold_pc, written, gold_retried>>

aggVars == <<fact_purchases, agg_monthly, agg_pc>>

cleanVars == <<object_name, raw, once, twice, clean_pc>>

apiVars == <<stored, response>>

totalsVars == <<df_clients, df_achats, outputs>>

vars == <<syncVars, xformVars, goldVars, aggVars, cleanVars, apiVars, totalsVars>>

----------------------------------------------------------------------------
(* Bounds *)
MaxDocs == 2
MaxRuns == 2
MaxFiles == 2
MaxCols == 2
MaxGoldRuns == 2
MaxPurchases == 3
MaxMonth == 3
MaxMontant == 2
MaxClients == 3
MaxAchats == 6
MaxStored == 2
MaxSilverAchats == 3

----------------------------------------------------------------------------
(* Scalars. Every cell value is a pair <<type, n>>, so that values of       *)
(* different Python types can be compared.                                  *)
PyInt(n) == <<"int", n>>
None == <<"None", 0>>
ObjectId(n) == <<"ObjectId", n>>
Datetime(t) == <<"datetime", t>>

NoCall == [ok |-> FALSE]

Range(s) == {s[k] : k \in 1..Len(s)}
SeqsUpTo(S, n) == UNION {[1..m -> S] : m \in 0..n}

\* A document is a function from its field names to scalars.
Fields(d) == DOMAIN d
Without(d, fs) == [f \in DOMAIN d \ fs |-> d[f]]
Business(d) == Without(d, {"_id", "_written_at"})
WithoutTs(d) == Without(d, {"_written_at"})
Keys(c) == {s["_id"] : s \in c}

----------------------------------------------------------------------------
(* The document store (pymongo / MongoDB semantics of the calls the code    *)
(* makes).                                                                  *)

\* $set: the fields of d overwrite or extend those of the stored document s.
SetFields(s, d) == [f \in DOMAIN s \cup DOMAIN d |-> IF f \in DOMAIN d THEN d[f] ELSE s[f]]

\* A replace of a stored document written as delete-then-insert, seen after
\* its delete.
UpdateOneDeleteFirst(c, d) ==
    IF \E s \in c : s["_id"] = d["_id"]
    THEN {s \in c : s["_id"] # d["_id"]}
    ELSE c \cup {d}

\* An upsert that never matches the stored document.
UpdateOneAlwaysInsert(c, d) == c \cup {d}

\* UpdateOne({unique_key: doc[unique_key]}, {'$set': doc}, upsert=True):
\* one atomic step of the store.
UpdateOne(c, d) ==
    IF \E s \in c : s["_id"] = d["_id"]
    THEN {IF s["_id"] = d["_id"] THEN SetFields(s, d) ELSE s : s \in c}
    ELSE c \cup {d}

\* The driver gives every document without _id a fresh ObjectId, in place.
AssignIds(ds, oid) ==
    [k \in 1..Len(ds) |->
        IF "_id" \in DOMAIN ds[k] THEN ds[k]
        ELSE ("_id" :> ObjectId(oid + k)) @@ ds[k]]

\* A driver that sends copies: the caller's documents stay without _id.
DocsAfterInsertOfCopies(ds, assigned) == ds

\* insert_many and insert_one write the _id they generate into the caller's
\* dicts: after the call the documents are the ones that were sent.
DocsAfterInsert(ds, assigned) == assigned

\* A bulk insert that leaves out documents whose business content is stored.
InsertManyDedup(c, ds, S) ==
    c \cup {ds[k] : k \in {j \in S : \A s \in c : Business(s) # Business(ds[j])}}

\* insert_many(docs, ordered=False) having stored the documents at positions S.
InsertMany(c, ds, S) == c \cup {ds[k] : k \in S}

\* Positions of the batch the store can accept: _id is unique in a collection.
Insertable(c, ds) == {k \in 1..Len(ds) : ds[k]["_id"] \notin Keys(c)}

----------------------------------------------------------------------------
(* insert_data_to_mongodb *)

otherThanSync == <<xformVars, goldVars, aggVars, cleanVars, apiVars, totalsVars>>

IdleTransform ==
    /\ gold_files = <<>>
    /\ name_idx = 1
    /\ df = <<>>
    /\ result = <<>>
    /\ flow = "idle"
    /\ unread = {}
    /\ synced = <<>>

IdleGold ==
    /\ gold_bucket = <<>>
    /\ gold_run = 0
    /\ gold_pc = "idle"
    /\ written = <<>>
    /\ gold_retried = FALSE

IdleAgg ==
    /\ fact_purchases = <<>>
    /\ agg_monthly = <<>>
    /\ agg_pc = "idle"

IdleClean ==
    /\ object_name = "none"
    /\ raw = {}
    /\ once = {}
    /\ twice = {}
    /\ clean_pc = 0

NoResponse == [route |-> "none"]

IdleApi ==
    /\ stored = <<>>
    /\ response = NoResponse

NoOutputs == [computed |-> FALSE]

IdleTotals ==
    /\ df_clients = <<>>
    /\ df_achats = <<>>
    /\ outputs = NoOutputs

IdleSync ==
    /\ gold = <<>>
    /\ unique_key = "None"
    /\ has_b = FALSE
    /\ docs = <<>>
    /\ coll = {}
    /\ pc = "idle"
    /\ i = 1
    /\ now = 0
    /\ next_oid = 0
    /\ retried = FALSE
    /\ runs = 0
    /\ before = {}
    /\ last = NoCall
    /\ attempted = {}
    /\ skipped = {}
    /\ many_raised = FALSE

KeyValues == {PyInt(1), PyInt(2), None}
AValues == {PyInt(1), PyInt(2)}
KeyedRows == {[f \in {"_id", "a"} |-> IF f = "_id" THEN k ELSE a] : k \in KeyValues, a \in AValues}
KeylessRows == {[f \in {"a"} |-> a] : a \in AValues}

\* The documents of one flow run: normalize() of the gold file as it is now.
FreshDocs(g, hb) ==
    [k \in 1..Len(g) |-> IF hb THEN ("b" :> PyInt(0)) @@ g[k] ELSE g[k]]

\* for doc in docs: doc['_written_at'] = datetime.utcnow()
Stamped(ds, ts) == [k \in 1..Len(ds) |-> ("_written_at" :> Datetime(ts[k])) @@ ds[k]]

\* The clock readings of one stamping loop, which starts at tick t. The loop
\* only assigns, and the model takes it to run within that tick.
Stamps(n, t) == {[k \in 1..n |-> t]}

\* The fallback loop stops at the first document whose insert fails.
FallbackAborts(k, n, failed) == IF failed THEN "raised" ELSE IF k = n THEN "done" ELSE "fallback"

\* except Exception: continue -- the loop goes on whatever insert_one did.
FallbackNext(k, n, failed) == IF k = n THEN "done" ELSE "fallback"

\* if unique_key: ... else: ...
PathOf(uk) == IF uk = "_id" THEN "bulk_write" ELSE "insert_many"

\* The body of the task for one dataset, up to the first store call.
BeginCall(ds) ==
    IF Len(ds) = 0
    THEN /\ pc' = "done"
         /\ docs' = ds
         /\ UNCHANGED now
    ELSE \E ts \in Stamps(Len(ds), now + 1) :
            /\ docs' = Stamped(ds, ts)
            /\ now' = ts[Len(ds)]
            /\ pc' = PathOf(unique_key)

\* A flow run: transform_to_mongo_docs builds fresh documents, then the task runs.
StartSync ==
    /\ pc \in {"idle", "done", "failed"}
    /\ runs < MaxRuns
    /\ runs' = runs + 1
    /\ \E hb \in BOOLEAN :
        /\ has_b' = hb
        /\ BeginCall(FreshDocs(gold, hb))
    /\ last' = IF pc = "done"
               THEN [ok |-> TRUE, before |-> before, after |-> coll, has_b |-> has_b,
                     many_raised |-> many_raised, retried |-> retried]
               ELSE NoCall
    /\ before' = coll
    /\ i' = 1
    /\ retried' = FALSE
    /\ attempted' = {}
    /\ skipped' = {}
    /\ many_raised' = FALSE
    /\ UNCHANGED <<gold, unique_key, coll, next_oid>>
    /\ UNCHANGED otherThanSync

\* bulk_write executes the next UpdateOne of the ordered batch.
BulkWriteOp ==
    /\ pc = "bulk_write"
    /\ coll' = UpdateOne(coll, docs[i])
    /\ i' = i + 1
    /\ pc' = IF i = Len(docs) THEN "done" ELSE "bulk_write"
    /\ UNCHANGED <<gold, unique_key, has_b, docs, now, next_oid, retried, runs,
                   before, last, attempted, skipped, many_raised>>
    /\ UNCHANGED otherThanSync

\* bulk_write raises (the store is unreachable, or an op fails): the ops
\* before it stay applied, the task fails and is retried once.
BulkWriteError ==
    /\ pc = "bulk_write"
    /\ pc' = IF retried THEN "failed" ELSE "raised"
    /\ UNCHANGED <<gold, unique_key, has_b, docs, coll, i, now, next_oid, retried,
                   runs, before, last, attempted, skipped, many_raised>>
    /\ UNCHANGED otherThanSync

\* The retry of the task runs it again on the same (mutated) documents.
Retry ==
    /\ pc = "raised"
    /\ retried' = TRUE
    /\ BeginCall(docs)
    /\ i' = 1
    /\ UNCHANGED <<gold, unique_key, has_b, coll, next_oid, runs, before, last,
                   attempted, skipped, many_raised>>
    /\ UNCHANGED otherThanSync

\* collection.insert_many(docs, ordered=False): it stores some of the batch
\* and raises, or stores all of it and returns (or raises all the same).
InsertManyCall ==
    /\ pc = "insert_many"
    /\ LET ds == AssignIds(docs, next_oid)
       IN /\ docs' = DocsAfterInsert(docs, ds)
          /\ next_oid' = next_oid + Len(docs)
          /\ \E S \in SUBSET Insertable(coll, ds), raises \in BOOLEAN :
                /\ (S # 1..Len(ds)) => raises
                /\ coll' = InsertMany(coll, ds, S)
                /\ many_raised' = raises
                /\ pc' = IF raises THEN "fallback" ELSE "done"
    /\ i' = 1
    /\ UNCHANGED <<gold, unique_key, has_b, now, retried, runs, before, last,
                   attempted, skipped>>
    /\ UNCHANGED otherThanSync

\* One turn of the fallback loop: insert_one(doc), its exception swallowed.
\* insert_one gives a document without _id a fresh ObjectId, in place.
InsertOneCall ==
    /\ pc = "fallback"
    /\ LET ds == AssignIds(docs, next_oid)
       IN /\ docs' = DocsAfterInsert(docs, [docs EXCEPT ![i] = ds[i]])
          /\ next_oid' = IF ds[i] = docs[i] THEN next_oid ELSE next_oid + Len(docs)
          /\ \E failed \in BOOLEAN :
                /\ (i \notin Insertable(coll, ds)) => failed
                /\ coll' = IF failed THEN coll ELSE coll \cup {ds[i]}
                /\ skipped' = IF failed THEN skipped \cup {i} ELSE skipped
                /\ pc' = FallbackNext(i, Len(docs), failed)
    /\ attempted' = attempted \cup {i}
    /\ i' = i + 1
    /\ UNCHANGED <<gold, unique_key, has_b, now, retried, runs,
                   before, last, many_raised>>
    /\ UNCHANGED otherThanSync

InitSync ==
    /\ IdleTotals
    /\ IdleApi
    /\ IdleTransform
    /\ IdleGold
    /\ IdleAgg
    /\ IdleClean
    /\ unique_key \in {"_id", "None"}
    /\ gold \in SeqsUpTo(IF unique_key = "_id" THEN KeyedRows ELSE KeylessRows, MaxDocs)
    /\ has_b = FALSE
    /\ docs = <<>>
    /\ coll = {}
    /\ pc = "idle"
    /\ i = 1
    /\ now = 0
    /\ next_oid = 0
    /\ retried = FALSE
    /\ runs = 0
    /\ before = {}
    /\ last = NoCall
    /\ attempted = {}
    /\ skipped = {}
    /\ many_raised = FALSE

NextSync ==
    \/ StartSync
    \/ BulkWriteOp
    \/ BulkWriteError
    \/ Retry
    \/ InsertManyCall
    \/ InsertOneCall

SpecSync == InitSync /\ [][NextSync]_vars

----------------------------------------------------------------------------
(* transform_to_mongo_docs and transform_to_mongo_docs_flow                 *)
(* A column name is the sequence of its characters.                         *)

otherThanTransform == <<syncVars, goldVars, aggVars, cleanVars, apiVars, totalsVars>>

col_id == <<"i", "d">>
col__id == <<"_", "i", "d">>
col_ID_ACHAT == <<"I", "D", "_", "A", "C", "H", "A", "T">>
col_id_client == <<"i", "d", "_", "c", "l", "i", "e", "n", "t">>
col_Client_Id == <<"C", "l", "i", "e", "n", "t", "_", "I", "d">>
col_pays == <<"p", "a", "y", "s">>
col_idx == <<"i", "d", "x">>

ColumnNames == {col_id, col__id, col_ID_ACHAT, col_id_client, col_Client_Id, col_pays, col_idx}

\* The headers a gold CSV can have: up to MaxCols distinct column names.
ColumnLists ==
    {cs \in SeqsUpTo(ColumnNames, MaxCols) : \A j \in 1..Len(cs), k \in 1..Len(cs) : j # k => cs[j] # cs[k]}

FileNames == {"dim_client.csv", "fact_purchases.csv", "kpis.csv"}

\* str.lower(), on the letters the column names are made of.
LowerChar(ch) ==
    CASE ch = "I" -> "i" [] ch = "D" -> "d" [] ch = "A" -> "a" [] ch = "C" -> "c"
      [] ch = "H" -> "h" [] ch = "T" -> "t" [] OTHER -> ch
Lower(c) == [k \in 1..Len(c) |-> LowerChar(c[k])]

EndsWith(c, suffix) ==
    /\ Len(c) >= Len(suffix)
    /\ SubSeq(c, Len(c) - Len(suffix) + 1, Len(c)) = suffix
StartsWith(c, prefix) ==
    /\ Len(c) >= Len(prefix)
    /\ SubSeq(c, 1, Len(prefix)) = prefix

\* c.lower().endswith('id') or c.lower().startswith('id_') or c.lower() == 'id'
IsIdCol(c) ==
    \/ EndsWith(Lower(c), <<"i", "d">>)
    \/ StartsWith(Lower(c), <<"i", "d", "_">>)
    \/ Lower(c) = <<"i", "d">>

\* id_cols = [c for c in df.columns if ...]
id_cols(cols) == SelectSeq(cols, IsIdCol)

\* A key inference that takes the first id-like column when there are several.
clean_df_first_id(cols) ==
    IF Len(id_cols(cols)) >= 1
    THEN [k \in 1..Len(cols) |-> IF cols[k] = id_cols(cols)[1] THEN col__id ELSE cols[k]]
    ELSE cols

\* clean_df, on the column names: the one id-like column is renamed to _id.
clean_df(cols) ==
    IF Len(id_cols(cols)) = 1
    THEN [k \in 1..Len(cols) |-> IF cols[k] = id_cols(cols)[1] THEN col__id ELSE cols[k]]
    ELSE cols

\* unique_key = '_id' if '_id' in df.columns else None
UniqueKeyOf(cols) == IF col__id \in Range(cols) THEN "_id" ELSE "None"

\* collection = Path(name).stem
Stem(name) ==
    CASE name = "dim_client.csv" -> "dim_client"
      [] name = "fact_purchases.csv" -> "fact_purchases"
      [] name = "kpis.csv" -> "kpis"

\* A read error that is left to propagate out of the task.
ReadErrorRaises(st) == "Failed"

\* except Exception: continue -- the flow state after a read that raised.
ReadErrorContinues(st) == st

AfterFile(k) == IF k = Len(gold_files) THEN "insert" ELSE "transform"

\* One turn of the loop over gold_files whose _read_gold_csv raises.
ReadGoldFails ==
    /\ flow = "transform"
    /\ unread' = unread \cup {gold_files[name_idx]}
    /\ flow' = ReadErrorContinues(AfterFile(name_idx))
    /\ name_idx' = name_idx + 1
    /\ UNCHANGED <<gold_files, df, result, synced>>
    /\ UNCHANGED otherThanTransform

\* One turn of the loop whose file is read: clean_df, then the result entry.
ReadGoldOk ==
    /\ flow = "transform"
    /\ \E cols \in ColumnLists :
        /\ df' = cols
        /\ result' = (gold_files[name_idx] :>
                        [collection |-> Stem(gold_files[name_idx]),
                         unique_key |-> UniqueKeyOf(clean_df(cols))]) @@ result
    /\ flow' = AfterFile(name_idx)
    /\ name_idx' = name_idx + 1
    /\ UNCHANGED <<gold_files, unread, synced>>
    /\ UNCHANGED otherThanTransform

\* insert_data_to_mongodb(data) returns: every dataset of data went its path.
InsertDataReturns ==
    /\ flow = "insert"
    /\ synced' = [n \in DOMAIN result |-> PathOf(result[n].unique_key)]
    /\ flow' = "Completed"
    /\ UNCHANGED <<gold_files, name_idx, df, result, unread>>
    /\ UNCHANGED otherThanTransform

\* insert_data_to_mongodb(data) raises, which only bulk_write can make it do.
InsertDataRaises ==
    /\ flow = "insert"
    /\ \E n \in DOMAIN result : PathOf(result[n].unique_key) = "bulk_write"
    /\ flow' = "Failed"
    /\ UNCHANGED <<gold_files, name_idx, df, result, unread, synced>>
    /\ UNCHANGED otherThanTransform

InitTransform ==
    /\ IdleTotals
    /\ IdleApi
    /\ IdleSync
    /\ IdleGold
    /\ IdleAgg
    /\ IdleClean
    /\ gold_files \in {fs \in SeqsUpTo(FileNames, MaxFiles) :
                         \A j \in 1..Len(fs), k \in 1..Len(fs) : j # k => fs[j] # fs[k]}
    /\ name_idx = 1
    /\ df = <<>>
    /\ result = <<>>
    /\ flow = IF Len(gold_files) = 0 THEN "insert" ELSE "transform"
    /\ unread = {}
    /\ synced = <<>>

NextTransform ==
    \/ ReadGoldFails
    \/ ReadGoldOk
    \/ InsertDataReturns
    \/ InsertDataRaises

SpecTransform == InitTransform /\ [][NextTransform]_vars

----------------------------------------------------------------------------
(* gold_aggregations: the computation as one step, the write loop per object *)

otherThanGold == <<syncVars, xformVars, aggVars, cleanVars, apiVars, totalsVars>>

\* outputs, in the insertion order of the dict
Outputs == <<"dim_client.csv", "dim_date.csv", "fact_purchases.csv", "agg_daily.csv",
             "agg_monthly.csv", "revenue_by_country.csv", "stats_by_product.csv", "kpis.csv">>

\* A flow run of gold_aggregation_flow begins: the task starts.
StartGold ==
    /\ gold_pc \in {"idle", "done", "failed"}
    /\ gold_run < MaxGoldRuns
    /\ gold_run' = gold_run + 1
    /\ gold_pc' = "compute"
    /\ written' = <<>>
    /\ gold_retried' = FALSE
    /\ UNCHANGED gold_bucket
    /\ UNCHANGED otherThanGold

\* The silver tables are read, the eight outputs are computed in memory and
\* the bucket is seen to exist: nothing has been written.
ComputeOutputs ==
    /\ gold_pc = "compute"
    /\ gold_pc' = "write"
    /\ UNCHANGED <<gold_bucket, gold_run, written, gold_retried>>
    /\ UNCHANGED otherThanGold

\* A read of a silver table, an aggregation or bucket_exists raises.
ComputeRaises ==
    /\ gold_pc = "compute"
    /\ gold_pc' = IF gold_retried THEN "failed" ELSE "raised"
    /\ UNCHANGED <<gold_bucket, gold_run, written, gold_retried>>
    /\ UNCHANGED otherThanGold

\* client.put_object(BUCKET_GOLD, name, ...) for the next output; written[name] = ...
PutObject ==
    /\ gold_pc = "write"
    /\ LET name == Outputs[Len(written) + 1]
       IN /\ gold_bucket' = (name :> gold_run) @@ gold_bucket
          /\ written' = Append(written, name)
    /\ gold_pc' = IF Len(written) + 1 = Len(Outputs) THEN "done" ELSE "write"
    /\ UNCHANGED <<gold_run, gold_retried>>
    /\ UNCHANGED otherThanGold

\* put_object raises: the exception leaves the loop and the task.
PutObjectRaises ==
    /\ gold_pc = "write"
    /\ gold_pc' = IF gold_retried THEN "failed" ELSE "raised"
    /\ UNCHANGED <<gold_bucket, gold_run, written, gold_retried>>
    /\ UNCHANGED otherThanGold

\* The retry of the task runs it again from its first line.
RetryGold ==
    /\ gold_pc = "raised"
    /\ gold_retried' = TRUE
    /\ gold_pc' = "compute"
    /\ written' = <<>>
    /\ UNCHANGED <<gold_bucket, gold_run>>
    /\ UNCHANGED otherThanGold

InitGold ==
    /\ IdleTotals
    /\ IdleApi
    /\ IdleSync
    /\ IdleTransform
    /\ IdleAgg
    /\ IdleClean
    /\ gold_bucket = <<>>
    /\ gold_run = 0
    /\ gold_pc = "idle"
    /\ written = <<>>
    /\ gold_retried = FALSE

NextGold ==
    \/ StartGold
    \/ ComputeOutputs
    \/ ComputeRaises
    \/ PutObject
    \/ PutObjectRaises
    \/ RetryGold

SpecGold == InitGold /\ [][NextGold]_vars

----------------------------------------------------------------------------
(* gold_aggregations: agg_monthly.                                          *)
(* A month is its number in the calendar (month m + 1 follows month m). A   *)
(* float cell is [kind, num, den]: the quotient num / den, or NaN, inf,     *)
(* -inf; a CSV cell may also be null (the empty field).                     *)

otherThanAgg == <<syncVars, xformVars, goldVars, cleanVars, apiVars, totalsVars>>

Fin(n, d) == [kind |-> "fin", num |-> n, den |-> d]
NaN == [kind |-> "nan", num |-> 0, den |-> 1]
Inf == [kind |-> "inf", num |-> 0, den |-> 1]
NegInf == [kind |-> "-inf", num |-> 0, den |-> 1]
Null == [kind |-> "null", num |-> 0, den |-> 1]

\* The ascending sequence of a finite set of integers.
RECURSIVE SortedSeq(_)
SortedSeq(S) ==
    IF S = {} THEN <<>>
    ELSE LET m == CHOOSE x \in S : \A y \in S : x <= y
         IN <<m>> \o SortedSeq(S \ {m})

\* sum of montant over the rows of month m
RECURSIVE MonthRevenue(_, _)
MonthRevenue(rows, m) ==
    IF rows = <<>> THEN 0
    ELSE (IF Head(rows).month = m THEN Head(rows).montant ELSE 0) + MonthRevenue(Tail(rows), m)

\* float division of two finite numbers, or of a number by NaN
Divide(a, b) ==
    IF b.kind = "nan" \/ a.kind = "nan" THEN NaN
    ELSE IF b.num = 0
         THEN (IF a.num = 0 THEN NaN ELSE IF a.num > 0 THEN Inf ELSE NegInf)
         ELSE Fin(a.num, b.num)

\* .replace([np.inf, -np.inf], np.nan)
ReplaceInf(x) == IF x.kind \in {"inf", "-inf"} THEN NaN ELSE x

\* df.to_csv: NaN is written as the empty field
ToCsv(x) == IF x.kind = "nan" THEN Null ELSE x

\* groupby('year_month').agg(revenue=sum), sort_values, shift(1), pct_change
AggMonth(rows) ==
    LET months == SortedSeq({rows[k].month : k \in 1..Len(rows)})
        revenue(k) == MonthRevenue(rows, months[k])
        revenue_prev(k) == IF k = 1 THEN NaN ELSE Fin(revenue(k - 1), 1)
        pct_change(k) ==
            IF revenue_prev(k).kind = "nan" THEN NaN
            ELSE ReplaceInf(Divide(Fin(revenue(k) - revenue(k - 1), 1), revenue_prev(k)))
    IN [k \in 1..Len(months) |->
            [year_month |-> months[k],
             revenue |-> ToCsv(Fin(revenue(k), 1)),
             revenue_prev |-> ToCsv(revenue_prev(k)),
             pct_change |-> ToCsv(pct_change(k))]]

PurchaseRows == [month : 1..MaxMonth, montant : 0..MaxMontant]

\* gold_aggregations computes agg_month and writes agg_monthly.csv.
WriteAggMonthly ==
    /\ agg_pc = "input"
    /\ agg_monthly' = AggMonth(fact_purchases)
    /\ agg_pc' = "written"
    /\ UNCHANGED fact_purchases
    /\ UNCHANGED otherThanAgg

InitMonthly ==
    /\ IdleTotals
    /\ IdleApi
    /\ IdleSync
    /\ IdleTransform
    /\ IdleGold
    /\ IdleClean
    /\ fact_purchases \in SeqsUpTo(PurchaseRows, MaxPurchases)
    /\ agg_monthly = <<>>
    /\ agg_pc = "input"

NextMonthly == WriteAggMonthly

SpecMonthly == InitMonthly /\ [][NextMonthly]_vars

----------------------------------------------------------------------------
(* The silver cleaners _clean_clients and _clean_achats.                    *)
(* A DataFrame is the set of its rows; a row carries its index label idx,   *)
(* which in the frame read from the CSV is its position. sort_values runs   *)
(* with the default kind='quicksort', which is not stable: rows with equal  *)
(* dates come out in any order, the rows without a date (NaT) come last in  *)
(* the order they had (na_position='last'). The cleaners therefore yield a  *)
(* set of possible outputs.                                                 *)

otherThanClean == <<syncVars, xformVars, goldVars, aggVars, apiVars, totalsVars>>

NA == <<"nan", 0>>
NaT == <<"NaT", 0>>
Unparseable == <<"str", 0>>
Date(n) == <<"date", n>>
Num(n) == <<"num", n>>

\* pd.to_datetime(..., errors='coerce')
ToDatetime(c) == IF c[1] = "date" THEN c ELSE NaT

\* pd.to_numeric(..., errors='coerce')
ToNumeric(c) == IF c[1] = "num" THEN c ELSE NA

\* astype(str).str.strip(), on the country cells of the model
Strip(str) == CASE str = " UK" -> "UK" [] OTHER -> str

\* .replace(country_map)
country_map(str) ==
    CASE str = "Netherland" -> "Netherlands"
      [] str = "Netherland " -> "Netherlands"
      [] str = "UK" -> "United Kingdom"
      [] OTHER -> str

\* The rows that can stand last among the rows G of one key after
\* sort_values(date): the last NaT row if there is one, else any row with the
\* greatest date.
LastAfterSort(G, date) ==
    IF \E r \in G : r[date] = NaT
    THEN {r \in G : r[date] = NaT /\ \A q \in G : q[date] = NaT => q.idx <= r.idx}
    ELSE {r \in G : \A q \in G : q[date][2] <= r[date][2]}

\* sort_values(date).drop_duplicates(subset=[key], keep='last'): every output
\* the sort can lead to.
RECURSIVE SortDropDuplicates(_, _, _)
SortDropDuplicates(rows, key, date) ==
    IF rows = {} THEN {{}}
    ELSE LET k == (CHOOSE r \in rows : TRUE)[key]
             G == {r \in rows : r[key] = k}
         IN {{r} \cup rest : r \in LastAfterSort(G, date),
                             rest \in SortDropDuplicates(rows \ G, key, date)}

\* _clean_clients
clean_clients(frame) ==
    LET typed == {[r EXCEPT !.date_inscription = ToDatetime(@),
                            !.pays = country_map(Strip(@))] : r \in frame}
        kept == {r \in typed : r.id_client # NA}
    IN SortDropDuplicates(kept, "id_client", "date_inscription")

\* The montant values of a frame in ascending order, one per row.
RECURSIVE SortedMontants(_)
SortedMontants(rows) ==
    IF rows = {} THEN <<>>
    ELSE LET m == CHOOSE r \in rows : \A q \in rows : r.montant[2] <= q.montant[2]
         IN <<m.montant[2]>> \o SortedMontants(rows \ {m})

\* 4 * Series.quantile(a / 4) of the ascending values xs (linear
\* interpolation between the two nearest ranks); xs is not empty.
Quantile4(xs, a) ==
    LET pos == a * (Len(xs) - 1)
        lo == (pos \div 4) + 1
        frac == pos % 4
    IN IF frac = 0 THEN 4 * xs[lo]
       ELSE 4 * xs[lo] + frac * (xs[lo + 1] - xs[lo])

\* Bounds at 1 * IQR.
OutlierBoundsNarrow(xs) ==
    LET q1 == Quantile4(xs, 1)
        q3 == Quantile4(xs, 3)
        iqr == q3 - q1
    IN [lower |-> q1 - iqr, upper |-> q3 + iqr]

\* 4 * lower_bound and 4 * upper_bound: q1 - 3 * iqr, q3 + 3 * iqr
OutlierBounds(xs) ==
    LET q1 == Quantile4(xs, 1)
        q3 == Quantile4(xs, 3)
        iqr == q3 - q1
    IN [lower |-> q1 - 3 * iqr, upper |-> q3 + 3 * iqr]

\* A filter that keeps every row.
IqrFilterOff(rows) == rows

\* df[(montant >= lower_bound) & (montant <= upper_bound)]; on an empty frame
\* the quantiles are NaN and nothing is kept.
IqrFilter(rows) ==
    IF rows = {} THEN {}
    ELSE LET b == OutlierBounds(SortedMontants(rows))
         IN {r \in rows : 4 * r.montant[2] >= b.lower /\ 4 * r.montant[2] <= b.upper}

\* _clean_achats
clean_achats(frame) ==
    LET typed == {[r EXCEPT !.date_achat = ToDatetime(@),
                            !.montant = ToNumeric(@)] : r \in frame}
        nonnull == {r \in typed : /\ r.id_achat # NA /\ r.id_client # NA
                                  /\ r.date_achat # NaT /\ r.montant # NA}
        nonneg == {r \in nonnull : r.montant[2] >= 0}
    IN SortDropDuplicates(IqrFilter(nonneg), "id_achat", "date_achat")

ClientIds == {PyInt(1), PyInt(2), NA}
ClientDates == {Date(1), Date(2), Unparseable}
ClientCountries == {" UK", "France"}
Montants == {Num(-1), Num(0), Num(4), Unparseable}

\* A clients.csv of n rows.
ClientFrame(n, ids, dates, countries) ==
    {[idx |-> k, id_client |-> ids[k], date_inscription |-> dates[k], pays |-> countries[k]]
        : k \in 1..n}

\* An achats.csv of n rows of one customer, one purchase a day in the order
\* of the file; a purchase has an id of its own or, where again[k] holds, the
\* id of the first row again.
AchatFrame(n, again, montants) ==
    {[idx |-> k, id_achat |-> IF again[k] THEN PyInt(1) ELSE PyInt(k),
      id_client |-> PyInt(1), date_achat |-> Date(k), montant |-> montants[k]]
        : k \in 1..n}

\* Which rows of an achats.csv of n rows repeat the id of the first row:
\* none, or one of the later rows.
Repeats(n) == {[k \in 1..n |-> k = d] : d \in {0} \cup 2..n}

\* transform_and_store_silver on clients.csv
CleanClients ==
    /\ object_name = "clients.csv"
    /\ clean_pc = 0
    /\ once' \in clean_clients(raw)
    /\ clean_pc' = 1
    /\ UNCHANGED <<object_name, raw, twice>>
    /\ UNCHANGED otherThanClean

\* transform_and_store_silver on achats.csv
CleanAchats ==
    /\ object_name = "achats.csv"
    /\ clean_pc = 0
    /\ once' \in clean_achats(raw)
    /\ clean_pc' = 1
    /\ UNCHANGED <<object_name, raw, twice>>
    /\ UNCHANGED otherThanClean

\* _clean_clients on its own output
CleanClientsAgain ==
    /\ object_name = "clients.csv"
    /\ clean_pc = 1
    /\ twice' \in clean_clients(once)
    /\ clean_pc' = 2
    /\ UNCHANGED <<object_name, raw, once>>
    /\ UNCHANGED otherThanClean

\* _clean_achats on its own output
CleanAchatsAgain ==
    /\ object_name = "achats.csv"
    /\ clean_pc = 1
    /\ twice' \in clean_achats(once)
    /\ clean_pc' = 2
    /\ UNCHANGED <<object_name, raw, once>>
    /\ UNCHANGED otherThanClean

InitClean ==
    /\ IdleTotals
    /\ IdleApi
    /\ IdleSync
    /\ IdleTransform
    /\ IdleGold
    /\ IdleAgg
    /\ \/ /\ object_name = "clients.csv"
          /\ \E n \in 0..MaxClients :
                \E ids \in [1..n -> ClientIds], dates \in [1..n -> ClientDates],
                   countries \in [1..n -> ClientCountries] :
                     raw = ClientFrame(n, ids, dates, countries)
       \/ /\ object_name = "achats.csv"
          /\ \E n \in 0..MaxAchats :
                \E again \in Repeats(n), montants \in [1..n -> Montants] :
                     raw = AchatFrame(n, again, montants)
    /\ once = {}
    /\ twice = {}
    /\ clean_pc = 0

NextClean ==
    \/ CleanClients
    \/ CleanAchats
    \/ CleanClientsAgain
    \/ CleanAchatsAgain

SpecClean == InitClean /\ [][NextClean]_vars

----------------------------------------------------------------------------
(* The HTTP API: every route reads one collection and returns its documents *)
(* under 'data'. stored is the content of the collection the route reads,   *)
(* as insert_data_to_mongodb left it.                                       *)

otherThanApi == <<syncVars, xformVars, goldVars, aggVars, cleanVars, totalsVars>>

\* datetime.isoformat(): a string
Iso(t) == <<"isoformat", t>>

\* flask.jsonify of a datetime left in the payload: an HTTP date string
HttpDate(t) == <<"http_date", t>>

\* collection.find({}, {"_id": 0})
Find(c) == [k \in 1..Len(c) |-> Without(c[k], {"_id"})]

\* _sanitize_docs
sanitize_docs(ds) ==
    [k \in 1..Len(ds) |->
        [f \in DOMAIN ds[k] \ {"_written_at"} |->
            IF ds[k][f][1] = "datetime" THEN Iso(ds[k][f][2]) ELSE ds[k][f]]]

\* flask.jsonify({"data": data, ...}) on the documents of data
Jsonify(ds) ==
    [k \in 1..Len(ds) |->
        [f \in DOMAIN ds[k] |->
            IF ds[k][f][1] = "datetime" THEN HttpDate(ds[k][f][2]) ELSE ds[k][f]]]

\* find_one(sort=[("_written_at", -1)]) and latest["_written_at"].isoformat()
LatestTs(c) ==
    IF \E k \in 1..Len(c) : "_written_at" \in DOMAIN c[k]
    THEN LET ts == {c[k]["_written_at"][2] : k \in {j \in 1..Len(c) : "_written_at" \in DOMAIN c[j]}}
         IN Iso(CHOOSE t \in ts : \A u \in ts : u <= t)
    ELSE None

\* The documents a collection can hold after a sync: a key or an ObjectId, a
\* number, a date column stored as a datetime or null, and the timestamp.
StoredDocs ==
    {[f \in {"_id", "a", "date", "_written_at"} |->
        CASE f = "_id" -> id [] f = "a" -> PyInt(1) [] f = "date" -> d
          [] OTHER -> Datetime(t)]
      : id \in {PyInt(1), ObjectId(1)}, d \in {Datetime(1), None}, t \in 1..2}

\* The body a route returns when it sanitizes its documents.
Sanitized(route) ==
    [route |-> route, data |-> Jsonify(sanitize_docs(Find(stored))),
     latest_written_at |-> LatestTs(stored)]

\* The body a route returns when it passes on what find returned.
Unsanitized(route) ==
    [route |-> route, data |-> Jsonify(Find(stored)),
     latest_written_at |-> LatestTs(stored)]

Get_agg_daily ==
    /\ response' = Sanitized("/agg_daily")
    /\ UNCHANGED stored
    /\ UNCHANGED otherThanApi

Get_agg_monthly ==
    /\ response' = Sanitized("/agg_monthly")
    /\ UNCHANGED stored
    /\ UNCHANGED otherThanApi

Get_dim_client ==
    /\ response' = Sanitized("/dim_client")
    /\ UNCHANGED stored
    /\ UNCHANGED otherThanApi

Get_dim_date ==
    /\ response' = Sanitized("/dim_date")
    /\ UNCHANGED stored
    /\ UNCHANGED otherThanApi

Get_fact_purchase ==
    /\ response' = Sanitized("/fact_purchase")
    /\ UNCHANGED stored
    /\ UNCHANGED otherThanApi

Get_kpis ==
    /\ response' = Sanitized("/kpis")
    /\ UNCHANGED stored
    /\ UNCHANGED otherThanApi

Get_revenue_by_country ==
    /\ response' = Sanitized("/revenue_by_country")
    /\ UNCHANGED stored
    /\ UNCHANGED otherThanApi

\* stats_by_product does not call _sanitize_docs.
Get_stats_by_product ==
    /\ response' = Unsanitized("/stats_by_product")
    /\ UNCHANGED stored
    /\ UNCHANGED otherThanApi

InitApi ==
    /\ IdleTotals
    /\ IdleSync
    /\ IdleTransform
    /\ IdleGold
    /\ IdleAgg
    /\ IdleClean
    /\ stored \in SeqsUpTo(StoredDocs, MaxStored)
    /\ response = NoResponse

NextApi ==
    \/ Get_agg_daily
    \/ Get_agg_monthly
    \/ Get_dim_client
    \/ Get_dim_date
    \/ Get_fact_purchase
    \/ Get_kpis
    \/ Get_revenue_by_country
    \/ Get_stats_by_product

SpecApi == InitApi /\ [][NextApi]_vars

----------------------------------------------------------------------------
(* gold_aggregations: the fact table, the KPIs, agg_daily and               *)
(* revenue_by_country. The silver tables are what the cleaners wrote: a     *)
(* customer id occurs once in clients, every purchase has an id, a          *)
(* customer id, a date and an amount; the country of a customer may be      *)
(* null, and a purchase may name a customer that clients does not have.     *)

otherThanTotals == <<syncVars, xformVars, goldVars, aggVars, cleanVars, apiVars>>

Pays(n) == <<"pays", n>>

\* drop_duplicates(subset=['id_client']): the first row of every id_client
DimClient(clients) ==
    SelectSeq(clients,
              LAMBDA r : r = clients[CHOOSE k \in 1..Len(clients) :
                                        /\ clients[k].id_client = r.id_client
                                        /\ \A j \in 1..(k - 1) : clients[j].id_client # r.id_client])

\* df_achats.merge(dim_client[['id_client', 'pays']], on='id_client', how='left'),
\* dim_client having one row per id_client
FactPurchases(achats, dim) ==
    [k \in 1..Len(achats) |->
        [id_achat |-> achats[k].id_achat, id_client |-> achats[k].id_client,
         date_achat |-> achats[k].date_achat, montant |-> achats[k].montant,
         pays |-> IF \E j \in 1..Len(dim) : dim[j].id_client = achats[k].id_client
                  THEN dim[CHOOSE j \in 1..Len(dim) : dim[j].id_client = achats[k].id_client].pays
                  ELSE NA]]

\* Series.sum() of montant over the rows of a sequence
RECURSIVE SumMontant(_)
SumMontant(rows) ==
    IF rows = <<>> THEN 0 ELSE Head(rows).montant + SumMontant(Tail(rows))

\* The group of a key keeps the first amount of the group.
GroupRevenueFirst(rows, col, key) ==
    LET G == SelectSeq(rows, LAMBDA r : r[col] = key)
    IN IF G = <<>> THEN 0 ELSE Head(G).montant

\* revenue=('montant', 'sum') of the group of a key
GroupRevenue(rows, col, key) ==
    SumMontant(SelectSeq(rows, LAMBDA r : r[col] = key))

\* groupby(col).agg(transactions=('id_achat', 'count'), revenue=('montant', 'sum')):
\* groupby leaves out the rows whose key is null (dropna=True)
GroupBy(rows, col) ==
    {[key |-> key,
      transactions |-> Len(SelectSeq(rows, LAMBDA r : r[col] = key /\ r.id_achat # NA)),
      revenue |-> GroupRevenue(rows, col, key)]
        : key \in {rows[k][col] : k \in 1..Len(rows)} \ {NA, NaT}}

\* total_revenue, total_transactions, avg_order_value (as sum and count)
Kpis(fact) ==
    [total_revenue |-> SumMontant(fact),
     total_transactions |-> Len(fact),
     avg_order_value |-> IF Len(fact) > 0 THEN <<SumMontant(fact), Len(fact)>> ELSE <<0, 1>>]

SilverClientRows == [id_client : {PyInt(1), PyInt(2)}, pays : {Pays(1), NA}]
SilverAchatRows ==
    [id_client : {PyInt(1), PyInt(2)}, date_achat : {Date(1), Date(2)}, montant : 1..2]

\* The silver achats table of the given purchases: id_achat is the row number.
SilverAchats(rows) ==
    [k \in 1..Len(rows) |->
        [id_achat |-> PyInt(k), id_client |-> rows[k].id_client,
         date_achat |-> rows[k].date_achat, montant |-> rows[k].montant]]

\* gold_aggregations up to the outputs dict
ComputeTotals ==
    /\ ~outputs.computed
    /\ LET dim_client == DimClient(df_clients)
           fact == FactPurchases(df_achats, dim_client)
       IN outputs' = [computed |-> TRUE,
                      fact_purchases |-> fact,
                      kpis |-> Kpis(fact),
                      agg_daily |-> GroupBy(fact, "date_achat"),
                      revenue_by_country |-> GroupBy(fact, "pays")]
    /\ UNCHANGED <<df_clients, df_achats>>
    /\ UNCHANGED otherThanTotals

InitTotals ==
    /\ IdleSync
    /\ IdleTransform
    /\ IdleGold
    /\ IdleAgg
    /\ IdleClean
    /\ IdleApi
    /\ df_clients \in {c \in SeqsUpTo(SilverClientRows, 2) :
                          \A j, k \in 1..Len(c) : j # k => c[j].id_client # c[k].id_client}
    /\ \E rows \in SeqsUpTo(SilverAchatRows, MaxSilverAchats) : df_achats = SilverAchats(rows)
    /\ outputs = NoOutputs

NextTotals == ComputeTotals

SpecTotals == InitTotals /\ [][NextTotals]_vars

----------------------------------------------------------------------------
(* Properties of the synchronization (checked under SpecSync) *)

SameDocsTwice == pc = "done" /\ last.ok /\ last.has_b = has_b

\* C1: for a keyed collection, when sync has completed twice in succession
\* with the same documents, every key of the batch is stored exactly once and
\* the stored documents are those left by the first call except for
\* _written_at.
C1_SyncIdempotent ==
    (unique_key = "_id" /\ SameDocsTwice) =>
        /\ \A k \in 1..Len(docs) :
              Cardinality({s \in coll : s["_id"] = docs[k]["_id"]}) = 1
        /\ Cardinality(coll) = Cardinality(last.after)
        /\ {WithoutTs(s) : s \in coll} = {WithoutTs(s) : s \in last.after}

C1_Witness ==
    /\ unique_key = "_id" /\ SameDocsTwice
    /\ Len(docs) = 2 /\ docs[1]["_id"] # docs[2]["_id"]
    /\ coll # last.after

\* C7: during a keyed sync every key that was stored when the run began is
\* stored in every state the store passes through.
C7_NoKeyEverMissing ==
    unique_key = "_id" => Keys(before) \subseteq Keys(coll)

C7_Witness ==
    /\ unique_key = "_id" /\ pc = "bulk_write" /\ i = 2
    /\ docs[1]["_id"] \in Keys(before) /\ docs[2]["_id"] \in Keys(before)
    /\ docs[1]["_id"] # docs[2]["_id"]
    /\ coll # before

\* C8: on the keyless path the call never raises; when insert_many raised,
\* the fallback loop has tried insert_one on every position before the
\* current one, whatever failed, and on the whole batch when the call is done.
C8_FallbackTriesEveryDocument ==
    unique_key = "None" =>
        /\ pc \notin {"raised", "failed"}
        /\ (pc = "fallback" => attempted = 1..(i - 1))
        /\ (pc = "done" /\ many_raised => attempted = 1..Len(docs))
        /\ (pc = "done" /\ ~many_raised => attempted = {})

C8_Witness ==
    /\ unique_key = "None" /\ pc = "done" /\ many_raised
    /\ \E j \in skipped : \E k \in attempted \ skipped :
          j < k /\ docs[k] \in coll /\ docs[k] \notin before

\* C9: on the keyless path, when sync has completed twice in succession with
\* the same n documents and no insert failed, the two calls have added 2n
\* documents, two for every document of the batch.
C9_KeylessDuplicates ==
    (unique_key = "None" /\ SameDocsTwice /\ ~last.many_raised /\ ~many_raised) =>
        /\ Cardinality(coll) = Cardinality(last.before) + 2 * Len(docs)
        /\ \A k \in 1..Len(docs) :
              Cardinality({s \in coll \ last.before : Business(s) = Business(docs[k])})
                = 2 * Cardinality({j \in 1..Len(docs) : Business(docs[j]) = Business(docs[k])})

C9_Witness ==
    /\ unique_key = "None" /\ SameDocsTwice /\ ~last.many_raised /\ ~many_raised
    /\ Len(docs) = 2
    /\ Cardinality(coll) = 4

\* The positions of the batch that are the last with their key: the upserts
\* of earlier documents with the same key are overwritten by theirs.
LastOfKey == {k \in 1..Len(docs) : \A j \in (k + 1)..Len(docs) : docs[j]["_id"] # docs[k]["_id"]}
StoredUnder(key) == {s \in coll : s["_id"] = key}

\* C14: after a keyed sync of document d with key k, the document stored
\* under k has exactly the fields of d, with d's values, and the timestamp,
\* also when the document stored under k before had fields that d has not.
C14_StoredDocumentIsExactlyTheInput ==
    (unique_key = "_id" /\ pc = "done") =>
        \A k \in LastOfKey :
            docs[k]["_id"] # None => StoredUnder(docs[k]["_id"]) = {docs[k]}

\* C15: in a keyed sync the documents with a null key are upserted under that
\* one key: after the call the collection holds exactly one document with a
\* null key, and its fields are those of the last such document of the input.
C15_NullKeysMergeLastWins ==
    (unique_key = "_id" /\ pc = "done") =>
        \A k \in LastOfKey : docs[k]["_id"] = None => StoredUnder(None) = {docs[k]}

\* What a stored document holds besides the _id the driver gave it.
Content(d) == Without(d, {"_id"})

\* C17: within one keyless sync call every input document is stored at most
\* once, also when insert_many stores some of the documents and raises and the
\* fallback loop runs over the whole batch: the call adds, for every document
\* of the batch, no more stored documents of its content than the batch has.
C17_KeylessStoresEachDocumentAtMostOnce ==
    unique_key = "None" =>
        \A k \in 1..Len(docs) :
            Cardinality({s \in coll \ before : Content(s) = Content(docs[k])})
              <= Cardinality({j \in 1..Len(docs) : Content(docs[j]) = Content(docs[k])})

C17_Witness ==
    /\ unique_key = "None" /\ pc = "done" /\ many_raised
    /\ attempted = 1..Len(docs)
    /\ \E k \in skipped : docs[k] \in coll \ before
    /\ \E j \in attempted \ skipped : docs[j] \in coll \ before

----------------------------------------------------------------------------
(* Properties of the transformation (checked under SpecTransform) *)

\* The file the loop handled last, when it was read.
LastRead ==
    IF name_idx > 1 /\ gold_files[name_idx - 1] \notin unread
    THEN {gold_files[name_idx - 1]} ELSE {}

\* The naming convention as the specification words it.
IdLikeName(c) ==
    LET low == Lower(c)
    IN \/ (Len(low) >= 2 /\ low[Len(low) - 1] = "i" /\ low[Len(low)] = "d")
       \/ (Len(low) >= 3 /\ low[1] = "i" /\ low[2] = "d" /\ low[3] = "_")
IdLikeCount(cols) == Cardinality({k \in 1..Len(cols) : IdLikeName(cols[k])})

\* C2 as claimed: a key column is selected if and only if exactly one column
\* name is id-like; with zero or several the dataset goes the keyless path.
C2_KeyIffExactlyOneIdColumn ==
    \A n \in LastRead :
        /\ (result[n].unique_key = "_id") <=> (IdLikeCount(df) = 1)
        /\ (IdLikeCount(df) # 1) => PathOf(result[n].unique_key) = "insert_many"

\* C2 as amended: a key column is selected if and only if exactly one column
\* name is id-like or a column is named _id; in every other case unique_key
\* is None and the dataset goes the keyless path.
C2_KeyIffOneIdColumnOrUnderscoreId ==
    \A n \in LastRead :
        /\ (result[n].unique_key = "_id") <=>
              (IdLikeCount(df) = 1 \/ col__id \in Range(df))
        /\ (IdLikeCount(df) # 1 /\ col__id \notin Range(df)) =>
              (result[n].unique_key = "None" /\ PathOf(result[n].unique_key) = "insert_many")

C2_Witness ==
    \E n \in LastRead :
        /\ IdLikeCount(df) = 2
        /\ col__id \in Range(df)
        /\ result[n].unique_key = "_id"

\* C10 as claimed: a flow in which a gold file could not be read does not
\* complete.
C10_ReadFailurePropagates ==
    flow = "Completed" => unread = {}

\* C10 as amended: a gold file that cannot be read is skipped; the loop goes
\* on, the result holds exactly the files that were read, the flow goes on to
\* the sync of those, and when it completes each of them has been synced.
C10_UnreadableFileIsSkipped ==
    /\ flow \in {"transform", "insert", "Completed", "Failed"}
    /\ flow = "transform" => name_idx <= Len(gold_files)
    /\ flow \in {"insert", "Completed", "Failed"} =>
          /\ name_idx = Len(gold_files) + 1
          /\ DOMAIN result = Range(gold_files) \ unread
    /\ flow = "Completed" => DOMAIN synced = Range(gold_files) \ unread
    /\ flow = "Failed" => \E n \in DOMAIN result : result[n].unique_key = "_id"

C10_Witness ==
    /\ flow = "Completed"
    /\ Len(gold_files) = 2
    /\ unread = {gold_files[1]}
    /\ DOMAIN synced = {gold_files[2]}

----------------------------------------------------------------------------
(* Properties of the gold output (checked under SpecGold) *)

WrittenBy(r) == {n \in DOMAIN gold_bucket : gold_bucket[n] = r}

\* C3: when a run of gold_aggregations has failed, the gold bucket holds none
\* of that run's artifacts (so never artifacts of the failed run next to
\* artifacts of an earlier run).
C3_GoldAllOrNothing ==
    gold_pc = "failed" => WrittenBy(gold_run) = {}

----------------------------------------------------------------------------
(* Properties of agg_monthly (checked under SpecMonthly) *)

MonthsPresent == {fact_purchases[k].month : k \in 1..Len(fact_purchases)}

\* C4: in agg_monthly.csv, pct_change is null in every row whose prior
\* calendar month is absent from the data or has zero revenue, and no
\* pct_change is NaN or infinite.
C4_PctChangeNullWithoutPriorMonth ==
    agg_pc = "written" =>
        \A k \in 1..Len(agg_monthly) :
            LET row == agg_monthly[k]
            IN /\ ((row.year_month - 1) \notin MonthsPresent
                    \/ MonthRevenue(fact_purchases, row.year_month - 1) = 0)
                  => row.pct_change = Null
               /\ row.pct_change.kind \notin {"nan", "inf", "-inf"}

----------------------------------------------------------------------------
(* Properties of the cleaners (checked under SpecClean) *)

\* The input rows of a customer, with their dates parsed.
SameClient(r) == {q \in raw : q.id_client = r.id_client}
Parsed(q) == ToDatetime(q.date_inscription)

\* C5: _clean_clients keeps exactly one row per id_client, the one with the
\* latest date_inscription among the input rows of that id_client, and among
\* several rows with the latest date the one that comes last in the input.
C5_KeepsLatestRegistration ==
    (object_name = "clients.csv" /\ clean_pc >= 1) =>
        /\ \A q \in raw : q.id_client # NA =>
              Cardinality({r \in once : r.id_client = q.id_client}) = 1
        /\ \A r \in once : \A q \in SameClient(r) :
              /\ Parsed(q) # NaT =>
                    /\ r.date_inscription # NaT
                    /\ Parsed(q)[2] <= r.date_inscription[2]
              /\ Parsed(q) = r.date_inscription => q.idx <= r.idx

\* C6 as claimed: the cleaner applied to its own output removes no row.
C6_CleanerIdempotent ==
    clean_pc = 2 => twice = once

\* The fence [Q1 - 3 IQR, Q3 + 3 IQR] of the amounts of a frame, times 4.
Fence(rows) ==
    LET xs == SortedMontants(rows)
        q1 == Quantile4(xs, 1)
        q3 == Quantile4(xs, 3)
    IN [lower |-> q1 - 3 * (q3 - q1), upper |-> q3 + 3 * (q3 - q1)]
OutsideFence(r, rows) ==
    4 * r.montant[2] < Fence(rows).lower \/ 4 * r.montant[2] > Fence(rows).upper

\* C6 as amended: _clean_clients applied to its own output removes no row;
\* _clean_achats applied to its own output removes no row for a null, a
\* negative amount or a duplicate id, but removes the rows whose amount lies
\* outside the 3 IQR fence computed anew over the cleaned amounts.
C6_OnlyOutliersRemovedAgain ==
    clean_pc = 2 =>
        /\ object_name = "clients.csv" => twice = once
        /\ object_name = "achats.csv" =>
              /\ twice \subseteq once
              /\ \A r \in once : r \in twice <=> ~OutsideFence(r, once)

C6_Witness ==
    /\ clean_pc = 2
    /\ object_name = "achats.csv"
    /\ Cardinality(once) < Cardinality(raw)
    /\ twice # once
    /\ twice # {}

\* The rows of the input that survive the null and the negative-amount drops.
Survivors ==
    {r \in raw : /\ r.id_achat # NA /\ r.id_client # NA
                 /\ ToDatetime(r.date_achat) # NaT
                 /\ ToNumeric(r.montant) # NA /\ r.montant[2] >= 0}

\* C12: every row of the output of _clean_achats has montant >= 0 and montant
\* within [Q1 - 3 IQR, Q3 + 3 IQR], the quartiles taken over the amounts of
\* the rows that survived the null and negative-amount drops of that run.
C12_CleanedAmountsWithinFence ==
    (object_name = "achats.csv" /\ clean_pc >= 1) =>
        \A r \in once :
            /\ r.montant[1] = "num"
            /\ r.montant[2] >= 0
            /\ ~OutsideFence(r, Survivors)

C12_Witness ==
    /\ object_name = "achats.csv" /\ clean_pc = 1
    /\ \E r \in raw : r.montant = Unparseable \/ r.montant[2] < 0
    /\ \E r \in Survivors : OutsideFence(r, Survivors)
    /\ once # {}

----------------------------------------------------------------------------
(* Properties of the HTTP API (checked under SpecApi) *)

\* C11: for every route that republishes a collection and every stored
\* document, the corresponding element of the returned 'data' list has no
\* _written_at field.
C11_WrittenAtExcluded ==
    response # NoResponse =>
        /\ Len(response.data) = Len(stored)
        /\ \A k \in 1..Len(response.data) : "_written_at" \notin DOMAIN response.data[k]

----------------------------------------------------------------------------
(* Properties of the totals (checked under SpecTotals) *)

\* The sum of a column over the rows of a grouped table.
RECURSIVE SumOver(_, _)
SumOver(table, col) ==
    IF table = {} THEN 0
    ELSE LET r == CHOOSE x \in table : TRUE
         IN r[col] + SumOver(table \ {r}, col)

\* C13: for any non-empty purchase set read by gold_aggregations, the sum of
\* revenue over all agg_daily rows equals kpis.total_revenue.
C13_DailyRevenueSumsToTotal ==
    (outputs.computed /\ df_achats # <<>>) =>
        SumOver(outputs.agg_daily, "revenue") = outputs.kpis.total_revenue

C13_Witness ==
    /\ outputs.computed
    /\ Len(df_achats) = 3
    /\ Cardinality(outputs.agg_daily) = 2
    /\ outputs.kpis.total_revenue = 5

\* C16: the totals of revenue_by_country agree with the KPIs, also when a
\* purchase names a customer that dim_client does not have: the revenue of
\* its rows sums to kpis.total_revenue and their transactions sum to
\* kpis.total_transactions.
C16_CountryTotalsAgreeWithKpis ==
    outputs.computed =>
        /\ SumOver(outputs.revenue_by_country, "revenue") = outputs.kpis.total_revenue
        /\ SumOver(outputs.revenue_by_country, "transactions") = outputs.kpis.total_transactions

====
